---------------------------- MODULE Spec2Model ----------------------------
(***************************************************************************)
(* create-mrn-app: the command line entry (cli), the interactive resolver  *)
(* (runPrompts), the layout classifier, the manifest merge of an           *)
(* integrated backend and the monorepo root manifest builder.              *)
(*                                                                         *)
(* One run of the program is one behaviour: Init is the parsed command     *)
(* line, every await of the code is one step.                              *)
(***************************************************************************)
EXTENDS Integers, Sequences, FiniteSets, TLC

\* JavaScript's undefined: an option that was not passed, a const not yet bound.
NULL == "undefined"

(***************************************************************************)
(* Array helpers (Array.prototype.includes / filter)                       *)
(***************************************************************************)
Includes(arr, x) == \E i \in DOMAIN arr : arr[i] = x

Range(arr) == {arr[i] : i \in DOMAIN arr}

Filter(arr, allowed) == SelectSeq(arr, LAMBDA v : Includes(allowed, v))

(***************************************************************************)
(* types/config.ts: the enums and the compatibility tables                 *)
(***************************************************************************)
Framework == {"next", "react", "vue", "astro"}

BackendFramework ==
  {"none", "nextjs-builtin", "express", "fastify", "nestjs", "hono", "elysia", "convex"}

Database ==
  {"supabase", "convex", "neon", "sqlite", "turso", "planetscale", "mongodb", "none"}

ORM == {"prisma", "drizzle", "none"}

HonoRuntime == {"node", "bun"}

Auth == {"next-auth", "clerk", "supabase-auth", "better-auth", "none"}

Styling == {"tailwind", "tailwind-shadcn", "css-modules", "vanilla"}

PackageManager == {"npm", "pnpm", "bun"}

FRAMEWORK_AUTH_COMPAT(framework) ==
  CASE framework = "next"  -> <<"next-auth", "clerk", "supabase-auth", "better-auth", "none">>
    [] framework = "react" -> <<"clerk", "supabase-auth", "better-auth", "none">>
    [] framework = "vue"   -> <<"clerk", "supabase-auth", "better-auth", "none">>
    [] framework = "astro" -> <<"clerk", "supabase-auth", "better-auth", "none">>

FRAMEWORK_DB_COMPAT(framework) ==
  CASE framework = "next"  ->
         <<"supabase", "convex", "neon", "sqlite", "turso", "planetscale", "mongodb", "none">>
    [] framework = "react" ->
         <<"supabase", "convex", "neon", "sqlite", "turso", "planetscale", "mongodb", "none">>
    [] framework = "vue"   ->
         <<"supabase", "neon", "sqlite", "turso", "planetscale", "mongodb", "none">>
    [] framework = "astro" ->
         <<"supabase", "neon", "sqlite", "turso", "planetscale", "mongodb", "none">>

FRAMEWORK_BACKEND_COMPAT(framework) ==
  CASE framework = "next"  ->
         <<"none", "nextjs-builtin", "express", "fastify", "nestjs", "hono", "elysia", "convex">>
    [] framework = "react" ->
         <<"none", "express", "fastify", "nestjs", "hono", "elysia", "convex">>
    [] framework = "vue"   -> <<"none", "express", "fastify", "nestjs", "hono", "elysia">>
    [] framework = "astro" -> <<"none", "express", "fastify", "nestjs", "hono", "elysia">>

\* A table in which sqlite is left with one ORM.
DATABASE_ORM_COMPAT_sqliteDrizzle(database) ==
  CASE database = "mongodb"     -> <<"prisma">>
    [] database = "supabase"    -> <<"prisma", "drizzle">>
    [] database = "neon"        -> <<"prisma", "drizzle">>
    [] database = "sqlite"      -> <<"drizzle">>
    [] database = "turso"       -> <<"prisma", "drizzle">>
    [] database = "planetscale" -> <<"prisma", "drizzle">>
    [] database = "convex"      -> <<"none">>
    [] database = "none"        -> <<"none">>

DATABASE_ORM_COMPAT(database) ==
  CASE database = "mongodb"     -> <<"prisma">>
    [] database = "supabase"    -> <<"prisma", "drizzle">>
    [] database = "neon"        -> <<"prisma", "drizzle">>
    [] database = "sqlite"      -> <<"prisma", "drizzle">>
    [] database = "turso"       -> <<"prisma", "drizzle">>
    [] database = "planetscale" -> <<"prisma", "drizzle">>
    [] database = "convex"      -> <<"none">>
    [] database = "none"        -> <<"none">>

BUN_ONLY_BACKENDS == <<"elysia">>

RUNTIME_SELECTABLE_BACKENDS == <<"hono">>

SKIP_DB_BACKENDS == <<"convex", "none">>


(***************************************************************************)
(* The inputs of a run: what the user may type on the command line and     *)
(* answer at a prompt.  The tables above are complete; the user's choices  *)
(* are drawn from one representative per row of the tables that behaves    *)
(* differently (fastify and nestjs resolve like express, astro like vue,   *)
(* supabase, neon, turso and planetscale like sqlite).  commander does not *)
(* validate a flag's value, so a flag may carry any of them whatever the   *)
(* other flags are.                                                        *)
(***************************************************************************)
ProjectNameInputs == {"my-app", "."}

\* What the user types at the project name prompt.
ProjectNameAnswers == {"my-app"}

\* commander takes any string for an option: svelte and django stand for
\* the values that are no Framework and no BackendFramework.
FrameworkInputs == {"next", "vue", "svelte"}

BackendInputs == {"none", "nextjs-builtin", "express", "hono", "elysia", "convex", "django"}

DatabaseInputs == {"none", "sqlite", "mongodb", "convex"}

OrmInputs == ORM

RuntimeInputs == HonoRuntime

AuthInputs == {"none", "next-auth"}

StylingInputs == {"tailwind"}

PackageManagerInputs == PackageManager

\* What the user picks at the selects, among the options shown, and at the
\* multiselect of extras (its initialValues first).
FrameworkAnswers == {"next", "react", "vue"}

BackendAnswers == {"none", "nextjs-builtin", "express", "hono", "elysia", "convex"}

DatabaseAnswers == {"none", "sqlite", "mongodb"}

OrmAnswers == {"prisma", "drizzle"}

RuntimeAnswers == HonoRuntime

AuthAnswers == {"none", "next-auth"}

StylingAnswers == {"tailwind"}

PackageManagerAnswers == {"pnpm", "npm"}

ExtrasAnswers == {{"typescript", "eslint"}, {"testing", "playwright", "docker"}}

Opt(S) == S \cup {NULL}

(***************************************************************************)
(* State                                                                   *)
(***************************************************************************)
VARIABLES
  projectName,   \* cli: the positional [project-name] argument, or NULL
  options,       \* cli: CLIOptions as parsed by commander
  pc,            \* the await the run is suspended at
  rp,            \* runPrompts: its local consts and lets
  config,        \* cli: `let config: ProjectConfig`, Unassigned until resolved
  prompts,       \* the prompts shown so far, in order
  notices,       \* p.log.info / p.log.warn / logger lines, in order
  exitCode,      \* process.exit code, -1 while the process runs
  finalConfig,   \* generate: config with the actual project name
  dirs,          \* the directories created (fs.ensureDir), relative to the cwd
  files,         \* the files written, by path relative to the cwd
  spinner,       \* the messages the spinner was started with, in order
  execa          \* the child processes spawned, in order

\* what generate() changes
gen == <<finalConfig, dirs, files, spinner, execa>>

vars ==
  <<projectName, options, pc, rp, config, prompts, notices, exitCode, finalConfig,
    dirs, files, spinner, execa>>

NoExtras ==
  [typescript |-> FALSE, eslint |-> FALSE, prettier |-> FALSE, testing |-> FALSE,
   playwright |-> FALSE, docker |-> FALSE]

Unassigned ==
  [projectName |-> NULL, framework |-> NULL, backend |-> NULL, database |-> NULL,
   orm |-> NULL, auth |-> NULL, styling |-> NULL, packageManager |-> NULL,
   runtime |-> NULL, extras |-> NoExtras]

Unbound ==
  [projectName |-> NULL, framework |-> NULL, backend |-> NULL,
   forcePackageManager |-> NULL, runtime |-> NULL, database |-> NULL, orm |-> NULL,
   auth |-> NULL, styling |-> NULL, packageManager |-> NULL]

\* a || b on strings: the left operand unless it is undefined
Or(a, b) == IF a # NULL THEN a ELSE b

hasAllFlags(o) ==
  /\ o.framework # NULL
  /\ o.backend # NULL
  /\ o.db # NULL
  /\ o.auth # NULL
  /\ o.styling # NULL
  /\ o.pm # NULL

(***************************************************************************)
(* The command lines explored.  commander's boolean options: --typescript  *)
(* and --eslint are true unless --no-typescript / --no-eslint is passed;   *)
(* --docker, --testing, --playwright and --yes are undefined unless passed *)
(* (FALSE stands for undefined: the code reads them only through ?? false  *)
(* or for truthiness).                                                     *)
(***************************************************************************)
\* How many options besides --yes a command line carries, unless it is a
\* complete one (a project name, no --yes and every flag hasAllFlags asks
\* for), which may carry that many besides the six.
MaxFlags == 1

Given(x) == IF x # NULL THEN 1 ELSE 0

Passed(b) == IF b THEN 1 ELSE 0

NumValues(v) ==
  Given(v.framework) + Given(v.backend) + Given(v.db) + Given(v.auth)
    + Given(v.styling) + Given(v.pm)

NumOptional(x) ==
  Given(x.orm) + Given(x.runtime) + Passed(~x.typescript) + Passed(~x.eslint)
    + Passed(x.docker) + Passed(x.testing) + Passed(x.playwright)

\* the six options hasAllFlags asks for
RequiredFlags ==
  [framework : Opt(FrameworkInputs), backend : Opt(BackendInputs),
   db : Opt(DatabaseInputs), auth : Opt(AuthInputs), styling : Opt(StylingInputs),
   pm : Opt(PackageManagerInputs)]

\* the seven it does not ask for
OptionalFlags ==
  { x \in [orm : Opt(OrmInputs), runtime : Opt(RuntimeInputs), typescript : BOOLEAN,
           eslint : BOOLEAN, docker : BOOLEAN, testing : BOOLEAN,
           playwright : BOOLEAN] : NumOptional(x) <= MaxFlags }

NumFlags(v, x) == NumValues(v) + NumOptional(x)

\* every flag hasAllFlags asks for, and a project name
Complete(name, v, x, yes) ==
  /\ hasAllFlags(v)
  /\ name = "my-app"
  /\ ~yes

\* a few flags; --yes without a project name is explored on its own, cli
\* reads it no further
Partial(name, v, x, yes) ==
  /\ NumFlags(v, x) <= MaxFlags
  /\ (yes /\ name = NULL) => NumFlags(v, x) = 0

\* a few flags that the prompts do not get to see, or none
NonInteractive(name, v, x, yes) ==
  /\ NumFlags(v, x) <= MaxFlags
  /\ (yes /\ name # NULL) \/ NumFlags(v, x) = 0

\* The command lines of the whole run: the complete ones, --yes with a
\* name and a few flags, and the bare ones, which the prompts resolve.
InScope(name, v, x, yes) ==
  Complete(name, v, x, yes) \/ NonInteractive(name, v, x, yes)

\* The command lines of the resolution: the complete ones and all with a
\* few flags.
InScopeResolve(name, v, x, yes) ==
  Complete(name, v, x, yes) \/ Partial(name, v, x, yes)

Launched(wholeRun) ==
  /\ projectName \in Opt(ProjectNameInputs)
  /\ \E v \in { r \in RequiredFlags : NumValues(r) <= MaxFlags \/ hasAllFlags(r) },
        x \in OptionalFlags, y \in BOOLEAN :
       /\ IF wholeRun THEN InScope(projectName, v, x, y)
                    ELSE InScopeResolve(projectName, v, x, y)
       /\ options = v @@ x @@ [yes |-> y]
  /\ pc = "cli"
  /\ rp = Unbound
  /\ config = Unassigned
  /\ prompts = <<>>
  /\ notices = <<>>
  /\ exitCode = -1
  /\ finalConfig = Unassigned
  /\ dirs = {}
  /\ files = [path \in {} |-> NULL]
  /\ spinner = <<>>
  /\ execa = <<>>

Init == Launched(TRUE)

InitResolve == Launched(FALSE)

(***************************************************************************)
(* cli.ts: the three entry paths                                           *)
(***************************************************************************)
\* Extras in which prettier is on whatever --no-eslint says.
FlagExtras_prettierOn(o) ==
  [typescript |-> o.typescript, eslint |-> o.eslint, prettier |-> TRUE,
   testing |-> o.testing, playwright |-> o.playwright, docker |-> o.docker]

FlagExtras(o) ==
  [typescript |-> o.typescript, eslint |-> o.eslint, prettier |-> o.eslint,
   testing |-> o.testing, playwright |-> o.playwright, docker |-> o.docker]

\* if (options.yes && projectName): defaults with the provided project name
YesConfig(name, o) ==
  [projectName |-> name,
   framework |-> Or(o.framework, "next"),
   backend |-> Or(o.backend, "none"),
   database |-> Or(o.db, "none"),
   orm |-> Or(o.orm, "none"),
   auth |-> Or(o.auth, "none"),
   styling |-> Or(o.styling, "tailwind"),
   packageManager |-> Or(o.pm, "pnpm"),
   runtime |-> o.runtime,
   extras |-> FlagExtras(o)]

\* else if (hasAllFlags(options) && projectName): all flags provided
AllFlagsConfig(name, o) ==
  [projectName |-> name,
   framework |-> o.framework,
   backend |-> o.backend,
   database |-> o.db,
   orm |-> Or(o.orm, "none"),
   auth |-> o.auth,
   styling |-> o.styling,
   packageManager |-> o.pm,
   runtime |-> o.runtime,
   extras |-> FlagExtras(o)]

\* The entry path the command line selects.
Mode ==
  IF options.yes /\ projectName # NULL THEN "yes"
  ELSE IF hasAllFlags(options) /\ projectName # NULL THEN "flags"
  ELSE "interactive"

CliYes ==
  /\ pc = "cli"
  /\ Mode = "yes"
  /\ config' = YesConfig(projectName, options)
  /\ pc' = "generate"
  /\ UNCHANGED <<gen, projectName, options, rp, prompts, notices, exitCode>>

CliAllFlags ==
  /\ pc = "cli"
  /\ Mode = "flags"
  /\ config' = AllFlagsConfig(projectName, options)
  /\ pc' = "generate"
  /\ UNCHANGED <<gen, projectName, options, rp, prompts, notices, exitCode>>

\* Interactive mode: runPrompts is entered with the flags that were given.
CliInteractive ==
  /\ pc = "cli"
  /\ Mode = "interactive"
  /\ pc' = "projectName"
  /\ UNCHANGED <<gen, projectName, options, rp, config, prompts, notices, exitCode>>

(***************************************************************************)
(* prompts/index.ts: runPrompts.  The option lists of the selects, in the  *)
(* order the code lists them.                                              *)
(***************************************************************************)
frameworkOptions == <<"next", "react", "vue", "astro">>

backendOptions ==
  <<"none", "nextjs-builtin", "express", "fastify", "nestjs", "hono", "elysia", "convex">>

runtimeOptions == <<"node", "bun">>

databaseOptions ==
  <<"supabase", "neon", "planetscale", "mongodb", "sqlite", "turso", "none">>

ormOptions == <<"prisma", "drizzle">>

authOptions == <<"next-auth", "clerk", "supabase-auth", "better-auth", "none">>

stylingOptions == <<"tailwind", "tailwind-shadcn", "css-modules", "vanilla">>

packageManagerOptions == <<"pnpm", "npm", "bun">>

extrasOptions == {"typescript", "eslint", "testing", "playwright", "docker"}

\* What runPrompts receives from cli: the positional name and eight flags
\* (the boolean extras flags are not passed on).
PromptOptions ==
  [projectName |-> projectName, framework |-> options.framework,
   backend |-> options.backend, database |-> options.db, orm |-> options.orm,
   runtime |-> options.runtime, auth |-> options.auth, styling |-> options.styling,
   packageManager |-> options.pm]

\* A prompt is shown: p.text / p.select / p.multiselect
Show(name) == prompts' = Append(prompts, name)

\* `options.field || (await p.select(...))`: the flag when given, else the
\* user's pick among the options shown.
Ask(field, given, shown, inputs, next) ==
  /\ pc = field
  /\ pc' = next
  /\ IF given # NULL
       THEN /\ rp' = [rp EXCEPT ![field] = given]
            /\ UNCHANGED prompts
       ELSE /\ \E answer \in Range(shown) \cap inputs :
                 rp' = [rp EXCEPT ![field] = answer]
            /\ Show(field)
  /\ UNCHANGED <<gen, projectName, options, config, notices, exitCode>>

\* p.text validates the answer: not empty, "." or /^[a-z0-9-_]+$/i
PromptProjectName ==
  /\ pc = "projectName"
  /\ pc' = "framework"
  /\ IF PromptOptions.projectName # NULL
       THEN /\ rp' = [rp EXCEPT !.projectName = PromptOptions.projectName]
            /\ UNCHANGED prompts
       ELSE /\ \E answer \in ProjectNameAnswers :
                 rp' = [rp EXCEPT !.projectName = answer]
            /\ Show("projectName")
  /\ UNCHANGED <<gen, projectName, options, config, notices, exitCode>>

\* A catch that reports every exception, CANCELLED too, as an error.
Throw_cancelledIsError(message) ==
  /\ pc' = "exit"
  /\ notices' = Append(notices, <<"error", message>>)
  /\ exitCode' = 1

\* An exception reaches the catch of cli: CANCELLED is a warning and exit
\* code 0, anything else an error and exit code 1.
Throw(message) ==
  /\ pc' = "exit"
  /\ notices' = Append(notices, IF message = "CANCELLED"
                                  THEN <<"warn", "Operation cancelled">>
                                  ELSE <<"error", message>>)
  /\ exitCode' = IF message = "CANCELLED" THEN 0 ELSE 1

\* FRAMEWORK_*_COMPAT[framework] is undefined for a framework that is not one
\* of its keys; the filter of the select's options then throws before the
\* prompt is shown, and the TypeError reaches the catch of cli.
TypeError == "Cannot read properties of undefined (reading 'includes')"

FilterThrows(field) ==
  /\ pc = field
  /\ Throw(TypeError)
  /\ UNCHANGED <<gen, projectName, options, rp, config, prompts>>

PromptFramework ==
  Ask("framework", PromptOptions.framework, frameworkOptions, FrameworkAnswers, "backend")

\* Filter backend options based on frontend framework
PromptBackend ==
  IF PromptOptions.backend = NULL /\ rp.framework \notin Framework
    THEN FilterThrows("backend")
    ELSE Ask("backend", PromptOptions.backend,
             Filter(backendOptions, FRAMEWORK_BACKEND_COMPAT(rp.framework)),
             BackendAnswers, "elysia")

\* A check of bun that leaves the package manager to the user when bun is
\* missing.
HandleElysiaWhen_unforcedWithoutBun(bunInstalled) ==
  /\ pc = "elysia"
  /\ pc' = "runtime"
  /\ IF Includes(BUN_ONLY_BACKENDS, rp.backend)
       THEN /\ rp' = IF bunInstalled
                       THEN [rp EXCEPT !.forcePackageManager = "bun"]
                       ELSE rp
            /\ notices' =
                 IF ~bunInstalled
                   THEN notices \o << <<"warn", "Elysia requires Bun runtime">>,
                                      <<"info", "Run: curl -fsSL https://bun.sh/install | bash">> >>
                   ELSE notices
       ELSE UNCHANGED <<rp, notices>>
  /\ UNCHANGED <<gen, projectName, options, config, prompts, exitCode>>

\* Handle Elysia - requires Bun.  bunInstalled is what checkBunInstalled()
\* returns: whether `bun --version` ran.
HandleElysiaWhen(bunInstalled) ==
  /\ pc = "elysia"
  /\ pc' = "runtime"
  /\ IF Includes(BUN_ONLY_BACKENDS, rp.backend)
       THEN /\ rp' = [rp EXCEPT !.forcePackageManager = "bun"]
            /\ notices' =
                 IF ~bunInstalled
                   THEN notices \o << <<"warn", "Elysia requires Bun runtime">>,
                                      <<"info", "Run: curl -fsSL https://bun.sh/install | bash">> >>
                   ELSE notices
       ELSE UNCHANGED <<rp, notices>>
  /\ UNCHANGED <<gen, projectName, options, config, prompts, exitCode>>

HandleElysia == \E bunInstalled \in BOOLEAN : HandleElysiaWhen(bunInstalled)

\* Handle Hono - ask for runtime
HandleHono ==
  /\ pc = "runtime"
  /\ pc' = "database"
  /\ IF Includes(RUNTIME_SELECTABLE_BACKENDS, rp.backend)
       THEN IF PromptOptions.runtime # NULL
              THEN /\ rp' = [rp EXCEPT !.runtime = PromptOptions.runtime,
                                       !.forcePackageManager =
                                         IF PromptOptions.runtime = "bun" THEN "bun" ELSE @]
                   /\ UNCHANGED prompts
              ELSE /\ \E answer \in Range(runtimeOptions) \cap RuntimeAnswers :
                        rp' = [rp EXCEPT !.runtime = answer,
                                         !.forcePackageManager =
                                           IF answer = "bun" THEN "bun" ELSE @]
                   /\ Show("runtime")
       ELSE UNCHANGED <<rp, prompts>>
  /\ UNCHANGED <<gen, projectName, options, config, notices, exitCode>>

\* Database selection (skipped for the SKIP_DB_BACKENDS):
\* `let database = "none"; let orm = "none"` and then the database select.
PromptDatabase ==
  /\ pc = "database"
  /\ IF ~Includes(SKIP_DB_BACKENDS, rp.backend)
       THEN IF PromptOptions.database # NULL
              THEN /\ rp' = [rp EXCEPT !.database = PromptOptions.database,
                                       !.orm = "none"]
                   /\ pc' = "orm"
                   /\ UNCHANGED <<prompts, notices, exitCode>>
            ELSE IF rp.framework \notin Framework
              THEN /\ Throw(TypeError)
                   /\ UNCHANGED <<rp, prompts>>
            ELSE /\ \E answer \in
                          Range(Filter(databaseOptions, FRAMEWORK_DB_COMPAT(rp.framework)))
                            \cap DatabaseAnswers :
                        rp' = [rp EXCEPT !.database = answer, !.orm = "none"]
                 /\ Show("database")
                 /\ pc' = "orm"
                 /\ UNCHANGED <<notices, exitCode>>
       ELSE /\ pc' = "auth"
            /\ rp' = [rp EXCEPT !.database = "none", !.orm = "none"]
            /\ notices' =
                 IF rp.backend = "convex"
                   THEN Append(notices, <<"info", "Convex includes its own database">>)
                   ELSE notices
            /\ UNCHANGED <<prompts, exitCode>>
  /\ UNCHANGED <<gen, projectName, options, config>>

\* ORM selection based on database
PromptOrm ==
  /\ pc = "orm"
  /\ pc' = "auth"
  /\ IF rp.database # "none"
       THEN LET availableORMs == DATABASE_ORM_COMPAT(rp.database) IN
            IF Len(availableORMs) > 1
              THEN /\ UNCHANGED notices
                   /\ IF PromptOptions.orm # NULL
                        THEN /\ rp' = [rp EXCEPT !.orm = PromptOptions.orm]
                             /\ UNCHANGED prompts
                        ELSE /\ \E answer \in
                                    Range(Filter(ormOptions, availableORMs)) \cap OrmAnswers :
                                  rp' = [rp EXCEPT !.orm = answer]
                             /\ Show("orm")
              ELSE \* Auto-select if only one ORM available (e.g., MongoDB -> Prisma)
                   /\ rp' = [rp EXCEPT !.orm = availableORMs[1]]
                   /\ notices' =
                        IF availableORMs[1] # "none"
                          THEN Append(notices, <<"info", "Using orm for database",
                                                 availableORMs[1], rp.database>>)
                          ELSE notices
                   /\ UNCHANGED prompts
       ELSE UNCHANGED <<rp, prompts, notices>>
  /\ UNCHANGED <<gen, projectName, options, config, exitCode>>

\* Filter auth options based on framework
PromptAuth ==
  IF PromptOptions.auth = NULL /\ rp.framework \notin Framework
    THEN FilterThrows("auth")
    ELSE Ask("auth", PromptOptions.auth,
             Filter(authOptions, FRAMEWORK_AUTH_COMPAT(rp.framework)),
             AuthAnswers, "styling")

\* A styling prompt shown whatever --styling says.
PromptStyling_ignoresFlag ==
  Ask("styling", NULL, stylingOptions, StylingAnswers, "packageManager")

PromptStyling ==
  Ask("styling", PromptOptions.styling, stylingOptions, StylingAnswers, "packageManager")

\* A forced package manager announced twice.
PromptPackageManager_twoNotices ==
  /\ pc = "packageManager"
  /\ pc' = "extras"
  /\ IF rp.forcePackageManager # NULL
       THEN /\ rp' = [rp EXCEPT !.packageManager = rp.forcePackageManager]
            /\ notices' = notices \o
                 << <<"info", "Using package manager (required by)",
                      rp.forcePackageManager, rp.backend>>,
                    <<"info", "Using package manager (required by)",
                      rp.forcePackageManager, rp.backend>> >>
            /\ UNCHANGED prompts
       ELSE /\ UNCHANGED notices
            /\ IF PromptOptions.packageManager # NULL
                 THEN /\ rp' = [rp EXCEPT !.packageManager = PromptOptions.packageManager]
                      /\ UNCHANGED prompts
                 ELSE /\ \E answer \in Range(packageManagerOptions) \cap PackageManagerAnswers :
                           rp' = [rp EXCEPT !.packageManager = answer]
                      /\ Show("packageManager")
  /\ UNCHANGED <<gen, projectName, options, config, exitCode>>

\* The forced package manager wins over the flag and over the prompt.
PromptPackageManager ==
  /\ pc = "packageManager"
  /\ pc' = "extras"
  /\ IF rp.forcePackageManager # NULL
       THEN /\ rp' = [rp EXCEPT !.packageManager = rp.forcePackageManager]
            /\ notices' = Append(notices, <<"info", "Using package manager (required by)",
                                             rp.forcePackageManager, rp.backend>>)
            /\ UNCHANGED prompts
       ELSE /\ UNCHANGED notices
            /\ IF PromptOptions.packageManager # NULL
                 THEN /\ rp' = [rp EXCEPT !.packageManager = PromptOptions.packageManager]
                      /\ UNCHANGED prompts
                 ELSE /\ \E answer \in Range(packageManagerOptions) \cap PackageManagerAnswers :
                           rp' = [rp EXCEPT !.packageManager = answer]
                      /\ Show("packageManager")
  /\ UNCHANGED <<gen, projectName, options, config, exitCode>>

\* The object runPrompts returns, given the multiselect's answer.
PromptedConfig(r, extras) ==
  [projectName |-> r.projectName,
   framework |-> r.framework,
   backend |-> r.backend,
   database |-> r.database,
   orm |-> r.orm,
   auth |-> r.auth,
   styling |-> r.styling,
   packageManager |-> r.packageManager,
   runtime |-> r.runtime,
   extras |-> [typescript |-> "typescript" \in extras,
               eslint |-> "eslint" \in extras,
               prettier |-> "eslint" \in extras,
               testing |-> "testing" \in extras,
               playwright |-> "playwright" \in extras,
               docker |-> "docker" \in extras]]

\* The multiselect of extras is always shown; runPrompts then returns and
\* cli assigns config.
PromptExtras ==
  /\ pc = "extras"
  /\ pc' = "generate"
  /\ \E extras \in ExtrasAnswers :
       /\ extras \subseteq extrasOptions
       /\ config' = PromptedConfig(rp, extras)
  /\ Show("extras")
  /\ UNCHANGED <<gen, projectName, options, rp, notices, exitCode>>

\* Whether the step the run is at shows a prompt (the flag for it is missing
\* and the step is not skipped or forced).
Prompting ==
  CASE pc = "projectName"    -> PromptOptions.projectName = NULL
    [] pc = "framework"      -> PromptOptions.framework = NULL
    [] pc = "backend"        -> /\ PromptOptions.backend = NULL
                                /\ rp.framework \in Framework
    [] pc = "runtime"        -> /\ Includes(RUNTIME_SELECTABLE_BACKENDS, rp.backend)
                                /\ PromptOptions.runtime = NULL
    [] pc = "database"       -> /\ ~Includes(SKIP_DB_BACKENDS, rp.backend)
                                /\ PromptOptions.database = NULL
                                /\ rp.framework \in Framework
    [] pc = "orm"            -> /\ rp.database # "none"
                                /\ Len(DATABASE_ORM_COMPAT(rp.database)) > 1
                                /\ PromptOptions.orm = NULL
    [] pc = "auth"           -> /\ PromptOptions.auth = NULL
                                /\ rp.framework \in Framework
    [] pc = "styling"        -> PromptOptions.styling = NULL
    [] pc = "packageManager" -> /\ rp.forcePackageManager = NULL
                                /\ PromptOptions.packageManager = NULL
    [] pc = "extras"         -> TRUE
    [] OTHER                 -> FALSE

\* The user aborts the prompt shown: p.isCancel(...) -> throw new Error("CANCELLED"),
\* caught in cli: logger.warn("Operation cancelled"); process.exit(0).
CancelPrompt ==
  /\ Prompting
  /\ Show(pc)
  /\ notices' = Append(notices, <<"warn", "Operation cancelled">>)
  /\ pc' = "exit"
  /\ exitCode' = 0
  /\ UNCHANGED <<gen, projectName, options, rp, config>>

RunPrompts ==
  \/ PromptProjectName
  \/ PromptFramework
  \/ PromptBackend
  \/ HandleElysia
  \/ HandleHono
  \/ PromptDatabase
  \/ PromptOrm
  \/ PromptAuth
  \/ PromptStyling
  \/ PromptPackageManager
  \/ PromptExtras
  \/ CancelPrompt

(***************************************************************************)
(* generators/backends/index.ts                                            *)
(***************************************************************************)
\* The generator class getBackendGenerator instantiates; NULL for null.
getBackendGenerator(framework) ==
  CASE framework = "express"        -> "ExpressGenerator"
    [] framework = "fastify"        -> "FastifyGenerator"
    [] framework = "hono"           -> "HonoGenerator"
    [] framework = "elysia"         -> "ElysiaGenerator"
    [] framework = "nestjs"         -> "NestJSGenerator"
    [] framework = "convex"         -> "ConvexGenerator"
    [] framework = "nextjs-builtin" -> "NextJSAPIGenerator"
    [] OTHER                        -> NULL

requiresSeparatePackage(framework) ==
  LET separatePackageBackends == <<"express", "fastify", "hono", "elysia", "nestjs">>
  IN  Includes(separatePackageBackends, framework)

\* A list of integrated backends that also names a separate one.
integratesWithFrontend_withHono(framework) ==
  LET integratedBackends == <<"nextjs-builtin", "convex", "hono">>
  IN  Includes(integratedBackends, framework)

integratesWithFrontend(framework) ==
  LET integratedBackends == <<"nextjs-builtin", "convex">>
  IN  Includes(integratedBackends, framework)

\* generate(): isMonorepo / isIntegratedBackend select the layout; what is
\* neither is a frontend-only project.
Layout(backend) ==
  IF requiresSeparatePackage(backend) THEN "separate"
  ELSE IF integratesWithFrontend(backend) THEN "integrated"
  ELSE "none"

(***************************************************************************)
(* Objects (Record<string, string>) are functions from keys to values.     *)
(***************************************************************************)
EmptyObject == [k \in {} |-> NULL]

Keys(obj) == DOMAIN obj

\* { ...a, ...b }
Spread(a, b) == [k \in Keys(a) \cup Keys(b) |-> IF k \in Keys(b) THEN b[k] ELSE a[k]]

\* A run of assignments obj[k] = v, grouped as the code groups them under ifs
\* and switch cases: later groups overwrite earlier ones.
RECURSIVE Assign(_)
Assign(groups) ==
  IF Len(groups) = 0 THEN EmptyObject
  ELSE Spread(Assign(SubSeq(groups, 1, Len(groups) - 1)), groups[Len(groups)])

When(cond, obj) == IF cond THEN obj ELSE EmptyObject

(***************************************************************************)
(* The frontend generators' package.json                                   *)
(***************************************************************************)
usesTailwind(c) == c.styling = "tailwind" \/ c.styling = "tailwind-shadcn"

NextGenerator_getScripts(c) ==
  Assign(<<
    ("dev" :> "next dev") @@ ("build" :> "next build") @@ ("start" :> "next start")
      @@ ("lint" :> "next lint"),
    When(c.extras.testing, ("test" :> "vitest") @@ ("test:ui" :> "vitest --ui")),
    When(c.database = "convex",
         ("dev" :> "convex dev --once && next dev") @@ ("convex" :> "convex dev")) >>)

NextGenerator_getDependencies(c) ==
  Assign(<<
    ("next" :> "^15.1.0") @@ ("react" :> "^19.0.0") @@ ("react-dom" :> "^19.0.0"),
    CASE c.database = "supabase" ->
           ("@supabase/supabase-js" :> "^2.47.0") @@ ("@supabase/ssr" :> "^0.5.0")
      [] c.database = "convex" -> ("convex" :> "^1.17.0")
      [] c.database = "neon" ->
           ("@neondatabase/serverless" :> "^0.10.0") @@ ("drizzle-orm" :> "^0.38.0")
      [] c.database = "planetscale" ->
           ("@planetscale/database" :> "^1.19.0") @@ ("drizzle-orm" :> "^0.38.0")
      [] c.database = "turso" ->
           ("@libsql/client" :> "^0.14.0") @@ ("drizzle-orm" :> "^0.38.0")
      [] c.database = "sqlite" ->
           ("better-sqlite3" :> "^11.7.0") @@ ("drizzle-orm" :> "^0.38.0")
      [] OTHER -> EmptyObject,
    CASE c.auth = "next-auth" -> ("next-auth" :> "^5.0.0-beta.25")
      [] c.auth = "clerk" -> ("@clerk/nextjs" :> "^6.9.0")
      [] c.auth = "better-auth" -> ("better-auth" :> "^1.1.0")
      [] OTHER -> EmptyObject >>)

NextGenerator_getDevDependencies(c) ==
  Assign(<<
    When(c.extras.typescript,
         ("typescript" :> "^5.7.0") @@ ("@types/node" :> "^22.10.0")
           @@ ("@types/react" :> "^19.0.0") @@ ("@types/react-dom" :> "^19.0.0")),
    When(usesTailwind(c),
         ("tailwindcss" :> "^3.4.0") @@ ("postcss" :> "^8.4.0")
           @@ ("autoprefixer" :> "^10.4.0")),
    When(c.extras.eslint,
         ("eslint" :> "^9.17.0") @@ ("eslint-config-next" :> "^15.1.0")
           @@ ("prettier" :> "^3.4.0")),
    When(c.extras.testing,
         ("vitest" :> "^2.1.0") @@ ("@vitejs/plugin-react" :> "^4.3.0")
           @@ ("@testing-library/react" :> "^16.1.0")),
    When(c.database = "sqlite", ("@types/better-sqlite3" :> "^7.6.0")),
    When(c.database \in {"neon", "planetscale", "turso", "sqlite"},
         ("drizzle-kit" :> "^0.30.0")) >>)

ReactGenerator_getScripts(c) ==
  Assign(<<
    ("dev" :> "vite") @@ ("build" :> "vite build") @@ ("preview" :> "vite preview"),
    When(c.extras.eslint, ("lint" :> "eslint .")),
    When(c.extras.testing, ("test" :> "vitest") @@ ("test:ui" :> "vitest --ui")),
    When(c.database = "convex",
         ("dev" :> "convex dev --once && vite") @@ ("convex" :> "convex dev")) >>)

ReactGenerator_getDependencies(c) ==
  Assign(<<
    ("react" :> "^19.0.0") @@ ("react-dom" :> "^19.0.0"),
    CASE c.database = "supabase" -> ("@supabase/supabase-js" :> "^2.47.0")
      [] c.database = "convex" -> ("convex" :> "^1.17.0")
      [] OTHER -> EmptyObject,
    CASE c.auth = "clerk" -> ("@clerk/clerk-react" :> "^5.18.0")
      [] c.auth = "better-auth" -> ("better-auth" :> "^1.1.0")
      [] OTHER -> EmptyObject >>)

ReactGenerator_getDevDependencies(c) ==
  Assign(<<
    ("vite" :> "^6.0.0") @@ ("@vitejs/plugin-react" :> "^4.3.0"),
    When(c.extras.typescript,
         ("typescript" :> "^5.7.0") @@ ("@types/react" :> "^19.0.0")
           @@ ("@types/react-dom" :> "^19.0.0")),
    When(usesTailwind(c),
         ("tailwindcss" :> "^3.4.0") @@ ("postcss" :> "^8.4.0")
           @@ ("autoprefixer" :> "^10.4.0")),
    When(c.extras.eslint,
         ("eslint" :> "^9.17.0") @@ ("@eslint/js" :> "^9.17.0")
           @@ ("eslint-plugin-react-hooks" :> "^5.1.0")
           @@ ("eslint-plugin-react-refresh" :> "^0.4.0") @@ ("globals" :> "^15.0.0")
           @@ ("prettier" :> "^3.4.0")),
    When(c.extras.eslint /\ c.extras.typescript, ("typescript-eslint" :> "^8.18.0")),
    When(c.extras.testing,
         ("vitest" :> "^2.1.0") @@ ("@testing-library/react" :> "^16.1.0")
           @@ ("jsdom" :> "^25.0.0")) >>)

VueGenerator_getScripts(c) ==
  Assign(<<
    ("dev" :> "vite") @@ ("build" :> "vite build") @@ ("preview" :> "vite preview"),
    When(c.extras.typescript, ("build" :> "vue-tsc -b && vite build")),
    When(c.extras.eslint, ("lint" :> "eslint .")) >>)

VueGenerator_getDependencies(c) ==
  Assign(<<
    ("vue" :> "^3.5.0"),
    When(c.database = "supabase", ("@supabase/supabase-js" :> "^2.47.0")),
    When(c.auth = "clerk", ("vue-clerk" :> "^0.6.0")) >>)

VueGenerator_getDevDependencies(c) ==
  Assign(<<
    ("vite" :> "^6.0.0") @@ ("@vitejs/plugin-vue" :> "^5.2.0"),
    When(c.extras.typescript, ("typescript" :> "^5.7.0") @@ ("vue-tsc" :> "^2.2.0")),
    When(usesTailwind(c),
         ("tailwindcss" :> "^3.4.0") @@ ("postcss" :> "^8.4.0")
           @@ ("autoprefixer" :> "^10.4.0")),
    When(c.extras.eslint,
         ("eslint" :> "^9.17.0") @@ ("eslint-plugin-vue" :> "^9.32.0")
           @@ ("prettier" :> "^3.4.0")),
    When(c.extras.eslint /\ c.extras.typescript,
         ("@vue/eslint-config-typescript" :> "^14.2.0")) >>)

AstroGenerator_getScripts(c) ==
  Assign(<<
    ("dev" :> "astro dev") @@ ("build" :> "astro build")
      @@ ("preview" :> "astro preview") @@ ("astro" :> "astro"),
    When(c.extras.eslint, ("lint" :> "eslint .")),
    When(c.extras.playwright,
         ("test:e2e" :> "playwright test") @@ ("test:e2e:ui" :> "playwright test --ui")) >>)

AstroGenerator_getDependencies(c) ==
  Assign(<<
    ("astro" :> "^5.1.0"),
    When(usesTailwind(c),
         ("@astrojs/tailwind" :> "^5.1.0") @@ ("tailwindcss" :> "^3.4.0")),
    When(c.database = "supabase", ("@supabase/supabase-js" :> "^2.47.0")),
    When(c.auth = "clerk", ("@clerk/astro" :> "^1.4.0")) >>)

AstroGenerator_getDevDependencies(c) ==
  Assign(<<
    When(c.extras.typescript, ("typescript" :> "^5.7.0")),
    When(c.extras.eslint,
         ("eslint" :> "^9.17.0") @@ ("eslint-plugin-astro" :> "^1.3.0")
           @@ ("prettier" :> "^3.4.0") @@ ("prettier-plugin-astro" :> "^0.14.0")),
    When(c.extras.playwright, ("@playwright/test" :> "^1.49.0")) >>)

\* The generator class getFrontendGenerator instantiates; NULL where it
\* throws Unknown framework.
getFrontendGenerator(framework) ==
  CASE framework = "next"  -> "NextGenerator"
    [] framework = "react" -> "ReactGenerator"
    [] framework = "vue"   -> "VueGenerator"
    [] framework = "astro" -> "AstroGenerator"
    [] OTHER               -> NULL

\* BaseGenerator.getPackageJson, with the subclass's three methods
getPackageJson(generator, c) ==
  [name |-> c.projectName,
   scripts |->
     CASE generator = "NextGenerator"  -> NextGenerator_getScripts(c)
       [] generator = "ReactGenerator" -> ReactGenerator_getScripts(c)
       [] generator = "VueGenerator"   -> VueGenerator_getScripts(c)
       [] generator = "AstroGenerator" -> AstroGenerator_getScripts(c),
   dependencies |->
     CASE generator = "NextGenerator"  -> NextGenerator_getDependencies(c)
       [] generator = "ReactGenerator" -> ReactGenerator_getDependencies(c)
       [] generator = "VueGenerator"   -> VueGenerator_getDependencies(c)
       [] generator = "AstroGenerator" -> AstroGenerator_getDependencies(c),
   devDependencies |->
     CASE generator = "NextGenerator"  -> NextGenerator_getDevDependencies(c)
       [] generator = "ReactGenerator" -> ReactGenerator_getDevDependencies(c)
       [] generator = "VueGenerator"   -> VueGenerator_getDevDependencies(c)
       [] generator = "AstroGenerator" -> AstroGenerator_getDevDependencies(c)]

(***************************************************************************)
(* The integrated backends: what they contribute to the frontend's         *)
(* package.json                                                            *)
(***************************************************************************)
NextJSAPIGenerator_getDependencies(c) ==
  Assign(<<
    ("zod" :> "^3.23.0"),
    When(c.orm = "prisma", ("@prisma/client" :> "^5.22.0")),
    When(c.orm = "drizzle", ("drizzle-orm" :> "^0.36.0")),
    When(c.orm = "drizzle" /\ c.database \in {"sqlite", "turso"},
         ("better-sqlite3" :> "^11.6.0")),
    When(c.orm = "drizzle" /\ c.database \in {"neon", "supabase"},
         ("@neondatabase/serverless" :> "^0.10.0")),
    When(c.orm = "drizzle" /\ c.database = "planetscale",
         ("@planetscale/database" :> "^1.19.0")) >>)

NextJSAPIGenerator_getDevDependencies(c) ==
  Assign(<<
    When(c.orm = "prisma", ("prisma" :> "^5.22.0")),
    When(c.orm = "drizzle", ("drizzle-kit" :> "^0.28.0")),
    When(c.orm = "drizzle" /\ c.database \in {"sqlite", "turso"},
         ("@types/better-sqlite3" :> "^7.6.0")) >>)

NextJSAPIGenerator_getScripts(c) ==
  Assign(<<
    When(c.orm = "prisma",
         ("db:generate" :> "prisma generate") @@ ("db:push" :> "prisma db push")
           @@ ("db:migrate" :> "prisma migrate dev") @@ ("db:studio" :> "prisma studio")),
    When(c.orm = "drizzle",
         ("db:generate" :> "drizzle-kit generate") @@ ("db:push" :> "drizzle-kit push")
           @@ ("db:migrate" :> "drizzle-kit migrate")
           @@ ("db:studio" :> "drizzle-kit studio")) >>)

ConvexGenerator_getScripts ==
  ("convex:dev" :> "convex dev") @@ ("convex:deploy" :> "convex deploy")
    @@ ("convex:codegen" :> "convex codegen")

ConvexGenerator_getDependencies == ("convex" :> "^1.17.0")

ConvexGenerator_getDevDependencies == EmptyObject

\* backendGenerator.getDependencies(config) and its two siblings, for the
\* two generators that reach the merge
backendDeps(generator, c) ==
  IF generator = "ConvexGenerator" THEN ConvexGenerator_getDependencies
  ELSE NextJSAPIGenerator_getDependencies(c)

backendDevDeps(generator, c) ==
  IF generator = "ConvexGenerator" THEN ConvexGenerator_getDevDependencies
  ELSE NextJSAPIGenerator_getDevDependencies(c)

backendScripts(generator, c) ==
  IF generator = "ConvexGenerator" THEN ConvexGenerator_getScripts
  ELSE NextJSAPIGenerator_getScripts(c)

\* A merge in which the frontend's entries are applied last.
MergePackageJson_frontendWins(packageJson, deps, devDeps, scripts) ==
  [packageJson EXCEPT !.dependencies = Spread(deps, @),
                      !.devDependencies = Spread(devDeps, @),
                      !.scripts = Spread(scripts, @)]

\* Merge backend dependencies and scripts into frontend package.json
MergePackageJson(packageJson, deps, devDeps, scripts) ==
  [packageJson EXCEPT !.dependencies = Spread(@, deps),
                      !.devDependencies = Spread(@, devDeps),
                      !.scripts = Spread(@, scripts)]

(***************************************************************************)
(* The separate backends' package.json (its name and scripts; the          *)
(* dependency lists play no part in what is verified here)                 *)
(***************************************************************************)
prismaScripts ==
  ("db:generate" :> "prisma generate") @@ ("db:push" :> "prisma db push")

drizzleScripts ==
  ("db:generate" :> "drizzle-kit generate") @@ ("db:push" :> "drizzle-kit push")

ExpressGenerator_getScripts(c) ==
  Assign(<<
    ("dev" :> "tsx watch src/index.ts") @@ ("build" :> "tsc")
      @@ ("start" :> "node dist/index.js") @@ ("lint" :> "eslint src --ext .ts"),
    When(c.orm = "prisma",
         prismaScripts @@ ("db:migrate" :> "prisma migrate dev")
           @@ ("db:studio" :> "prisma studio")),
    When(c.orm = "drizzle",
         drizzleScripts @@ ("db:migrate" :> "drizzle-kit migrate")
           @@ ("db:studio" :> "drizzle-kit studio")) >>)

FastifyGenerator_getScripts(c) ==
  Assign(<<
    ("dev" :> "tsx watch src/index.ts") @@ ("build" :> "tsc")
      @@ ("start" :> "node dist/index.js"),
    When(c.orm = "prisma", prismaScripts @@ ("db:migrate" :> "prisma migrate dev")),
    When(c.orm = "drizzle", drizzleScripts) >>)

HonoGenerator_getScripts(c) ==
  LET isBun == c.runtime = "bun" IN
  Assign(<<
    ("dev" :> IF isBun THEN "bun run --hot src/index.ts" ELSE "tsx watch src/index.ts")
      @@ ("build" :> IF isBun THEN "bun build src/index.ts --outdir dist --target bun"
                     ELSE "tsc")
      @@ ("start" :> IF isBun THEN "bun run dist/index.js" ELSE "node dist/index.js"),
    When(c.orm = "prisma", prismaScripts),
    When(c.orm = "drizzle", drizzleScripts) >>)

ElysiaGenerator_getScripts(c) ==
  Assign(<<
    ("dev" :> "bun run --hot src/index.ts")
      @@ ("build" :> "bun build src/index.ts --outdir dist --target bun")
      @@ ("start" :> "bun run dist/index.js") @@ ("test" :> "bun test"),
    When(c.orm = "prisma", prismaScripts),
    When(c.orm = "drizzle", drizzleScripts) >>)

NestJSGenerator_getScripts(c) ==
  Assign(<<
    ("prebuild" :> "rimraf dist") @@ ("build" :> "nest build")
      @@ ("format" :> "prettier --write \"src/**/*.ts\" \"test/**/*.ts\"") @@ ("start" :> "nest start")
      @@ ("start:dev" :> "nest start --watch")
      @@ ("start:debug" :> "nest start --debug --watch")
      @@ ("start:prod" :> "node dist/main") @@ ("dev" :> "nest start --watch")
      @@ ("lint" :> "eslint \"{src,apps,libs,test}/**/*.ts\" --fix") @@ ("test" :> "jest")
      @@ ("test:watch" :> "jest --watch") @@ ("test:cov" :> "jest --coverage")
      @@ ("test:debug" :>
            "node --inspect-brk -r tsconfig-paths/register -r ts-node/register node_modules/.bin/jest --runInBand")
      @@ ("test:e2e" :> "jest --config ./test/jest-e2e.json"),
    When(c.orm = "prisma",
         prismaScripts @@ ("db:migrate" :> "prisma migrate dev")
           @@ ("db:studio" :> "prisma studio")),
    When(c.orm = "drizzle",
         drizzleScripts @@ ("db:migrate" :> "drizzle-kit migrate")
           @@ ("db:studio" :> "drizzle-kit studio")) >>)

\* BaseBackendGenerator.getPackageJson (ElysiaGenerator writes the same
\* shape)
getBackendPackageJson(generator, c) ==
  [name |-> c.projectName \o "-backend",
   scripts |->
     CASE generator = "ExpressGenerator" -> ExpressGenerator_getScripts(c)
       [] generator = "FastifyGenerator" -> FastifyGenerator_getScripts(c)
       [] generator = "HonoGenerator"    -> HonoGenerator_getScripts(c)
       [] generator = "ElysiaGenerator"  -> ElysiaGenerator_getScripts(c)
       [] generator = "NestJSGenerator"  -> NestJSGenerator_getScripts(c)]

(***************************************************************************)
(* generators/index.ts: the files of the monorepo root.  A path is the     *)
(* sequence of its segments; a command line is the sequence of its words,  *)
(* a quoted command line one word of the line that quotes it.              *)
(***************************************************************************)
\* A root manifest that names one sub-package instead of the glob.
rootWorkspaces_frontendOnly == << <<"packages", "frontend">> >>

\* rootPackageJson.workspaces
rootWorkspaces == << <<"packages", "*">> >>

\* A root manifest with a start script besides the eight.
rootScripts_withStart(c) ==
  ("dev" :> <<"concurrently", <<"pnpm", "--filter", "frontend", "dev">>,
              <<"pnpm", "--filter", "backend", "dev">> >>)
  @@ ("dev:frontend" :> <<c.packageManager, "--filter", "frontend", "dev">>)
  @@ ("dev:backend" :> <<c.packageManager, "--filter", "backend", "dev">>)
  @@ ("build" :> <<c.packageManager, "--filter", "frontend", "build", "&&",
                   c.packageManager, "--filter", "backend", "build">>)
  @@ ("build:frontend" :> <<c.packageManager, "--filter", "frontend", "build">>)
  @@ ("build:backend" :> <<c.packageManager, "--filter", "backend", "build">>)
  @@ ("lint" :> <<c.packageManager, "--filter", "*", "lint">>)
  @@ ("test" :> <<c.packageManager, "--filter", "*", "test">>)
  @@ ("start" :> <<c.packageManager, "--filter", "backend", "start">>)

\* rootPackageJson.scripts
rootScripts(c) ==
  ("dev" :> <<"concurrently", <<"pnpm", "--filter", "frontend", "dev">>,
              <<"pnpm", "--filter", "backend", "dev">> >>)
  @@ ("dev:frontend" :> <<c.packageManager, "--filter", "frontend", "dev">>)
  @@ ("dev:backend" :> <<c.packageManager, "--filter", "backend", "dev">>)
  @@ ("build" :> <<c.packageManager, "--filter", "frontend", "build", "&&",
                   c.packageManager, "--filter", "backend", "build">>)
  @@ ("build:frontend" :> <<c.packageManager, "--filter", "frontend", "build">>)
  @@ ("build:backend" :> <<c.packageManager, "--filter", "backend", "build">>)
  @@ ("lint" :> <<c.packageManager, "--filter", "*", "lint">>)
  @@ ("test" :> <<c.packageManager, "--filter", "*", "test">>)

createRootPackageJson(c) ==
  [name |-> c.projectName,
   workspaces |-> rootWorkspaces,
   scripts |-> rootScripts(c),
   devDependencies |-> ("concurrently" :> "^9.1.0")]

\* pnpm-workspace.yaml
createPnpmWorkspace == [packages |-> << <<"packages", "*">> >>]

\* docker-compose.yml: the services it declares
generateDockerCompose(c) ==
  [services |-> IF c.database \in {"mongodb", "planetscale"}
                  THEN <<"frontend", "backend", "db">>
                  ELSE <<"frontend", "backend">>,
   \* MONGO_INITDB_DATABASE / MYSQL_DATABASE of the db service
   database |-> IF c.database \in {"mongodb", "planetscale"}
                  THEN c.projectName
                  ELSE NULL]

\* A workspace pattern covers a directory: segment by segment, * standing
\* for any one segment.
Covers(pattern, dir) ==
  /\ Len(pattern) = Len(dir)
  /\ \A i \in 1..Len(pattern) : pattern[i] = "*" \/ pattern[i] = dir[i]

(***************************************************************************)
(* generators/index.ts: generate.  Of the files a generator writes the     *)
(* model keeps its package.json.                                           *)
(***************************************************************************)
\* path.basename(process.cwd())
CwdName == "workspace"

\* The segments of a project name (the names explored have no separator).
PathSegments(name) == <<name>>

basename(segments) == segments[Len(segments)]

isCurrentDir(c) == c.projectName = "."

\* path.resolve(process.cwd(), config.projectName), relative to the cwd
projectPath(c) == IF isCurrentDir(c) THEN <<>> ELSE PathSegments(c.projectName)

actualProjectName_keepsMarker(c) == c.projectName

actualProjectName(c) ==
  IF isCurrentDir(c) THEN CwdName ELSE basename(PathSegments(c.projectName))

frontendPath(c) == projectPath(c) \o <<"packages", "frontend">>

backendPath(c) == projectPath(c) \o <<"packages", "backend">>

\* fs.writeJSON / fs.writeFile
Write(fs, path, content) == Spread(fs, path :> content)

Start(message) == spinner' = Append(spinner, message)

\* A generate that installs straight away, before anything is generated.
Structure_installFirst(c) == "install"

\* Where generate goes once the target directory is settled.
Structure(c) == IF requiresSeparatePackage(c.backend) THEN "monorepo" ELSE "single"

Settled(c) == IF isCurrentDir(c) THEN Structure(c) ELSE "ensureDir"

\* A generate that makes the project directory before it looks into it.
Generate_createsDirectoryFirst ==
  /\ pc = "generate"
  /\ finalConfig' = [config EXCEPT !.projectName = actualProjectName(config)]
  /\ dirs' = dirs \cup {projectPath(config)}
  /\ \E notEmpty \in BOOLEAN :
       pc' = IF notEmpty THEN "confirm" ELSE Settled(config)
  /\ UNCHANGED <<projectName, options, rp, config, prompts, notices, exitCode,
                 files, spinner, execa>>

\* generate up to its first await.  Whether the target directory exists
\* with visible entries is the machine's.
Generate ==
  /\ pc = "generate"
  /\ finalConfig' = [config EXCEPT !.projectName = actualProjectName(config)]
  /\ \E notEmpty \in BOOLEAN :
       pc' = IF notEmpty THEN "confirm" ELSE Settled(config)
  /\ UNCHANGED <<projectName, options, rp, config, prompts, notices, exitCode, dirs,
                 files, spinner, execa>>

\* "... is not empty. Continue anyway?"
Confirm ==
  /\ pc = "confirm"
  /\ Show("confirm")
  /\ \E shouldContinue \in {"yes", "no", "cancel"} :
       IF shouldContinue = "yes"
         THEN /\ pc' = Settled(config)
              /\ UNCHANGED <<notices, exitCode>>
         ELSE Throw("CANCELLED")
  /\ UNCHANGED <<gen, projectName, options, rp, config>>

\* Create project directory (skip if current dir)
CreateProjectDirectory ==
  /\ pc = "ensureDir"
  /\ Start("Creating project directory...")
  /\ dirs' = dirs \cup {projectPath(config)}
  /\ pc' = Structure(finalConfig)
  /\ UNCHANGED <<projectName, options, rp, config, prompts, notices, exitCode,
                 finalConfig, files, execa>>

\* generateMonorepoProject: Setting up monorepo structure
SetupMonorepo ==
  /\ pc = "monorepo"
  /\ Start("Setting up monorepo structure...")
  /\ dirs' = dirs \cup {frontendPath(config), backendPath(config)}
  /\ LET root == Write(files, projectPath(config) \o <<"package.json">>,
                       createRootPackageJson(finalConfig))
     IN  files' = IF finalConfig.packageManager = "pnpm"
                    THEN Write(root, projectPath(config) \o <<"pnpm-workspace.yaml">>,
                               createPnpmWorkspace)
                    ELSE root
  /\ pc' = "generateFrontend"
  /\ UNCHANGED <<projectName, options, rp, config, prompts, notices, exitCode,
                 finalConfig, execa>>

\* A frontend package that is given the backend's scripts as well.
GenerateFrontend_withBackendScripts ==
  /\ pc = "generateFrontend"
  /\ Start("Generating frontend...")
  /\ LET generator == getFrontendGenerator(finalConfig.framework)
         c == [finalConfig EXCEPT !.projectName = "frontend"]
     IN
     IF generator = NULL
       THEN /\ Throw("Unknown framework")
            /\ UNCHANGED files
       ELSE /\ files' = Write(files, frontendPath(config) \o <<"package.json">>,
                              [getPackageJson(generator, c) EXCEPT
                                 !.scripts =
                                   Spread(@, getBackendPackageJson(
                                               getBackendGenerator(finalConfig.backend),
                                               c).scripts)])
            /\ pc' = "generateBackend"
            /\ UNCHANGED <<notices, exitCode>>
  /\ UNCHANGED <<projectName, options, rp, config, prompts, finalConfig, dirs, execa>>

\* frontendGenerator.generate(frontendPath, {...config, projectName: "frontend"})
GenerateFrontend ==
  /\ pc = "generateFrontend"
  /\ Start("Generating frontend...")
  /\ LET generator == getFrontendGenerator(finalConfig.framework) IN
     IF generator = NULL
       THEN /\ Throw("Unknown framework")
            /\ UNCHANGED files
       ELSE /\ files' = Write(files, frontendPath(config) \o <<"package.json">>,
                              getPackageJson(generator,
                                             [finalConfig EXCEPT !.projectName = "frontend"]))
            /\ pc' = "generateBackend"
            /\ UNCHANGED <<notices, exitCode>>
  /\ UNCHANGED <<projectName, options, rp, config, prompts, finalConfig, dirs, execa>>

\* backendGenerator.generate(backendPath, {...config, projectName: "backend"})
GenerateBackend ==
  /\ pc = "generateBackend"
  /\ Start("Generating backend...")
  /\ LET generator == getBackendGenerator(finalConfig.backend) IN
     files' = IF generator # NULL
                THEN Write(files, backendPath(config) \o <<"package.json">>,
                           getBackendPackageJson(generator,
                                                 [finalConfig EXCEPT !.projectName = "backend"]))
                ELSE files
  /\ pc' = IF finalConfig.extras.docker THEN "docker" ELSE "install"
  /\ UNCHANGED <<projectName, options, rp, config, prompts, notices, exitCode,
                 finalConfig, dirs, execa>>

\* Generate Docker files if enabled
GenerateDocker ==
  /\ pc = "docker"
  /\ Start("Generating Docker configuration...")
  /\ files' = Write(Write(files, projectPath(config) \o <<"docker-compose.yml">>,
                          generateDockerCompose(finalConfig)),
                    projectPath(config) \o <<".env.example">>,
                    [database |-> finalConfig.database])
  /\ pc' = "install"
  /\ UNCHANGED <<projectName, options, rp, config, prompts, notices, exitCode,
                 finalConfig, dirs, execa>>

\* generateSingleProject: the frontend generator writes the project
GenerateProjectFiles ==
  /\ pc = "single"
  /\ Start("Generating project files...")
  /\ LET generator == getFrontendGenerator(finalConfig.framework) IN
     IF generator = NULL
       THEN /\ Throw("Unknown framework")
            /\ UNCHANGED files
       ELSE /\ files' = Write(files, projectPath(config) \o <<"package.json">>,
                              getPackageJson(generator, finalConfig))
            /\ pc' = IF /\ integratesWithFrontend(finalConfig.backend)
                        /\ getBackendGenerator(finalConfig.backend) # NULL
                       THEN "integrated"
                       ELSE "install"
            /\ UNCHANGED <<notices, exitCode>>
  /\ UNCHANGED <<projectName, options, rp, config, prompts, finalConfig, dirs, execa>>

\* The integrated backend's dependencies and scripts are merged into the
\* package.json the frontend generator wrote.
MergeIntegratedBackend ==
  /\ pc = "integrated"
  /\ LET backendGenerator == getBackendGenerator(finalConfig.backend)
         packageJsonPath == projectPath(config) \o <<"package.json">>
     IN  files' = Write(files, packageJsonPath,
                        MergePackageJson(files[packageJsonPath],
                                         backendDeps(backendGenerator, finalConfig),
                                         backendDevDeps(backendGenerator, finalConfig),
                                         backendScripts(backendGenerator, finalConfig)))
  /\ pc' = "install"
  /\ UNCHANGED <<projectName, options, rp, config, prompts, notices, exitCode,
                 finalConfig, dirs, spinner, execa>>

\* utils/package-manager.ts
getInstallCommand(pm) == <<pm, "install">>

\* A call of execa: the command line and whether its promise rejected (the
\* command could not be spawned or exited with a failure).
Execa(command, rejected) == [command |-> command, rejected |-> rejected]

\* An install whose failure is ignored, as initGit's is.
InstallDependencies_bestEffort ==
  /\ pc = "install"
  /\ Start("Installing dependencies with " \o finalConfig.packageManager \o "...")
  /\ \E installed \in BOOLEAN :
       execa' = Append(execa, Execa(getInstallCommand(finalConfig.packageManager),
                                    ~installed))
  /\ pc' = "git"
  /\ UNCHANGED <<projectName, options, rp, config, prompts, notices, exitCode,
                 finalConfig, dirs, files>>

\* installDependencies(projectPath, config.packageManager): execa rejects
\* when the command cannot be spawned or exits with a failure.
InstallDependencies ==
  /\ pc = "install"
  /\ Start("Installing dependencies with " \o finalConfig.packageManager \o "...")
  /\ \E installed \in BOOLEAN :
       /\ execa' = Append(execa, Execa(getInstallCommand(finalConfig.packageManager),
                                       ~installed))
       /\ IF installed
            THEN /\ pc' = "git"
                 /\ UNCHANGED <<notices, exitCode>>
            ELSE Throw("Command failed")
  /\ UNCHANGED <<projectName, options, rp, config, prompts, finalConfig, dirs, files>>

\* utils/git.ts: initGit runs these in order and gives up silently at the
\* first that fails.
gitCommands ==
  << <<"git", "init">>, <<"git", "add", "-A">>,
     <<"git", "commit", "-m", "Initial commit from create-mrn-app">> >>

\* An initGit that goes on to the next command after a failure.
initGit_keepsGoing(succeed) ==
  [i \in 1..Len(gitCommands) |-> Execa(gitCommands[i], i > succeed)]

\* The calls initGit makes when the first `succeed` of its commands
\* succeed: it awaits each in turn, and the first rejection leaves the try
\* block for the empty catch.
initGit(succeed) ==
  [i \in 1..(IF succeed < Len(gitCommands) THEN succeed + 1 ELSE succeed) |->
     Execa(gitCommands[i], i > succeed)]

\* A generate that initializes git whether or not .git exists.
InitializeGitWhen_always(hasGit) ==
  /\ pc = "git"
  /\ Start("Initializing git repository...")
  /\ \E succeed \in 0..Len(gitCommands) :
       execa' = execa \o initGit(succeed)
  /\ notices' = Append(notices, <<"success", finalConfig.projectName>>)
  /\ pc' = "done"
  /\ exitCode' = 0
  /\ UNCHANGED <<projectName, options, rp, config, prompts, finalConfig, dirs, files>>

\* Initialize git (skip if already in git repo), print the success message
\* and return; the process then ends.  hasGit is what
\* fs.existsSync(path.join(projectPath, ".git")) returns.
InitializeGitWhen(hasGit) ==
  /\ pc = "git"
  /\ IF hasGit
       THEN UNCHANGED <<spinner, execa>>
       ELSE /\ Start("Initializing git repository...")
            /\ \E succeed \in 0..Len(gitCommands) :
                 execa' = execa \o initGit(succeed)
  /\ notices' = Append(notices, <<"success", finalConfig.projectName>>)
  /\ pc' = "done"
  /\ exitCode' = 0
  /\ UNCHANGED <<projectName, options, rp, config, prompts, finalConfig, dirs, files>>

InitializeGit == \E hasGit \in BOOLEAN : InitializeGitWhen(hasGit)

GenerateSteps ==
  \/ Generate
  \/ Confirm
  \/ CreateProjectDirectory
  \/ SetupMonorepo
  \/ GenerateFrontend
  \/ GenerateBackend
  \/ GenerateDocker
  \/ GenerateProjectFiles
  \/ MergeIntegratedBackend
  \/ InstallDependencies
  \/ InitializeGit

Next ==
  \/ CliYes
  \/ CliAllFlags
  \/ CliInteractive
  \/ RunPrompts
  \/ GenerateSteps

Spec == Init /\ [][Next]_vars

\* The run up to the call of generate(config): cli and runPrompts, over
\* more command lines.
NextResolve ==
  \/ CliYes
  \/ CliAllFlags
  \/ CliInteractive
  \/ RunPrompts

SpecResolve == InitResolve /\ [][NextResolve]_vars

(***************************************************************************)
(* Properties                                                              *)
(***************************************************************************)
\* cli has assigned config: the configuration generate() is called with
Resolved == config # Unassigned

Shown(name) == Includes(prompts, name)

rootPackageJsonPath == projectPath(config) \o <<"package.json">>

\* the monorepo branch has written the root manifest
RootManifestWritten ==
  /\ finalConfig # Unassigned
  /\ requiresSeparatePackage(finalConfig.backend)
  /\ rootPackageJsonPath \in DOMAIN files

\* C1: whenever the backend is one of BUN_ONLY_BACKENDS, the configuration
\* generate() is called with has packageManager = bun, whichever entry path
\* resolved it and whatever package manager the user asked for.
C1_BunMandatedOnEveryPath ==
  (Resolved /\ Includes(BUN_ONLY_BACKENDS, config.backend))
    => config.packageManager = "bun"

\* the single project's package.json holds the merge of the integrated backend
Merged ==
  /\ finalConfig # Unassigned
  /\ integratesWithFrontend(finalConfig.backend)
  /\ ~requiresSeparatePackage(finalConfig.backend)
  /\ rootPackageJsonPath \in DOMAIN files
  /\ pc # "integrated"

\* merged has the union of the keys, the backend's value for each of the
\* backend's keys and the frontend's value for the others
RightBiased(frontend, backend, merged) ==
  /\ Keys(merged) = Keys(frontend) \cup Keys(backend)
  /\ \A k \in Keys(backend) : merged[k] = backend[k]
  /\ \A k \in Keys(frontend) \ Keys(backend) : merged[k] = frontend[k]

frontendPackageJson ==
  getPackageJson(getFrontendGenerator(finalConfig.framework), finalConfig)

\* C2: once the integrated backend is merged, each of dependencies,
\* devDependencies and scripts of package.json has the union of the
\* frontend's and the backend's keys, the backend's value for every key the
\* backend has (also where the frontend has it too) and the frontend's value
\* for every key only the frontend has.
C2_MergeIsRightBiased ==
  Merged =>
    LET generator == getBackendGenerator(finalConfig.backend)
        frontend == frontendPackageJson
        merged == files[rootPackageJsonPath]
    IN  /\ RightBiased(frontend.dependencies,
                       backendDeps(generator, finalConfig), merged.dependencies)
        /\ RightBiased(frontend.devDependencies,
                       backendDevDeps(generator, finalConfig), merged.devDependencies)
        /\ RightBiased(frontend.scripts,
                       backendScripts(generator, finalConfig), merged.scripts)

\* C2 witness: a merge in which frontend and backend declare the same
\* dependency and the same devDependency with different versions.
C2_MergedWithCollision ==
  /\ Merged
  /\ LET generator == getBackendGenerator(finalConfig.backend) IN
     /\ \E k \in Keys(frontendPackageJson.dependencies)
                   \cap Keys(backendDeps(generator, finalConfig)) :
          frontendPackageJson.dependencies[k] # backendDeps(generator, finalConfig)[k]
     /\ \E k \in Keys(frontendPackageJson.devDependencies)
                   \cap Keys(backendDevDeps(generator, finalConfig)) :
          frontendPackageJson.devDependencies[k]
            # backendDevDeps(generator, finalConfig)[k]
     /\ Keys(frontendPackageJson.scripts) \ Keys(backendScripts(generator, finalConfig))
          # {}
     /\ Keys(backendScripts(generator, finalConfig)) # {}

ExactlyOneLayout(backend) ==
  LET separate == requiresSeparatePackage(backend)
      integrated == integratesWithFrontend(backend)
      layout == Layout(backend)
  IN  /\ layout \in {"separate", "integrated", "none"}
      /\ layout = "separate" <=> separate
      /\ layout = "integrated" <=> integrated
      /\ layout = "none" <=> (~separate /\ ~integrated)
      /\ ~(separate /\ integrated)

\* every BackendFramework has exactly one layout
LayoutOfEveryBackend == \A backend \in BackendFramework : ExactlyOneLayout(backend)

\* C3: the layout is a function of the backend alone, defined for every
\* BackendFramework and for the backend of the run: exactly one of separate,
\* integrated and none holds of it, separate exactly when
\* requiresSeparatePackage, integrated exactly when integratesWithFrontend,
\* none exactly when neither; the two predicates never hold together; and
\* the structure generate() takes for the run is the one of its backend.
C3_LayoutIsTotalAndExclusive ==
  /\ LayoutOfEveryBackend
  /\ Resolved => ExactlyOneLayout(config.backend)
  /\ pc \in {"monorepo", "generateFrontend", "generateBackend", "docker"}
       => Layout(finalConfig.backend) = "separate"
  /\ pc = "integrated" => Layout(finalConfig.backend) = "integrated"
  /\ pc = "single" => Layout(finalConfig.backend) \in {"integrated", "none"}

\* C3 witness: generate() has classified an integrated backend and taken
\* the single-project structure with a merge for it
C3_ClassifiedIntegrated ==
  /\ pc = "integrated"
  /\ finalConfig.backend = "convex"
  /\ rootPackageJsonPath \in DOMAIN files


\* C4: in the monorepo branch the scripts of the root manifest have exactly
\* the eight keys dev, dev:frontend, dev:backend, build, build:frontend,
\* build:backend, lint and test, whatever the configuration.
C4_RootScriptsAreTheEight ==
  RootManifestWritten =>
    Keys(files[rootPackageJsonPath].scripts) =
      {"dev", "dev:frontend", "dev:backend", "build", "build:frontend",
       "build:backend", "lint", "test"}

\* C4 witness: a root manifest written for a bun-only backend with docker
\* and testing asked for
C4_RootManifestForElysia ==
  /\ RootManifestWritten
  /\ finalConfig.backend = "elysia"
  /\ finalConfig.extras.docker
  /\ finalConfig.extras.testing

\* the sub-package directories of the monorepo, relative to the project
subPackages == {<<"packages", "frontend">>, <<"packages", "backend">>}

\* C5 as stated: in the monorepo branch the workspaces of the root manifest
\* list exactly the two sub-package directories packages/frontend and
\* packages/backend.
C5_WorkspacesListTheTwoDirectories ==
  RootManifestWritten =>
    Range(files[rootPackageJsonPath].workspaces) = subPackages

\* C5 amended: in the monorepo branch the workspaces of the root manifest
\* are the one pattern packages/*, and that pattern covers both sub-package
\* directories, which the run has created.
C5_WorkspacesGlobCoversBoth ==
  RootManifestWritten =>
    /\ files[rootPackageJsonPath].workspaces = << <<"packages", "*">> >>
    /\ \A sub \in subPackages :
         /\ projectPath(config) \o sub \in dirs
         /\ \E i \in 1..Len(files[rootPackageJsonPath].workspaces) :
              Covers(files[rootPackageJsonPath].workspaces[i], sub)

\* C5 witness: the root manifest of a monorepo in the current directory
C5_RootManifestInCurrentDir ==
  /\ RootManifestWritten
  /\ isCurrentDir(config)
  /\ frontendPath(config) \in dirs
  /\ backendPath(config) \in dirs

\* C6: in every resolved configuration of a known framework, database and
\* orm are none when the backend is one of SKIP_DB_BACKENDS, and otherwise
\* database is in FRAMEWORK_DB_COMPAT of the framework, whether it was picked
\* at the prompt or given with --db.
C6_DatabaseAllowedOrSkipped ==
  (Resolved /\ config.framework \in Framework) =>
    IF Includes(SKIP_DB_BACKENDS, config.backend)
      THEN config.database = "none" /\ config.orm = "none"
      ELSE Includes(FRAMEWORK_DB_COMPAT(config.framework), config.database)

\* C7: in every resolved configuration, orm is in DATABASE_ORM_COMPAT of the
\* database, also when it was given with --orm.
C7_OrmAllowedForDatabase ==
  Resolved => Includes(DATABASE_ORM_COMPAT(config.database), config.orm)

\* the database's list of ORMs is one ORM that is not none
SingleOrm(database) ==
  /\ Len(DATABASE_ORM_COMPAT(database)) = 1
  /\ DATABASE_ORM_COMPAT(database)[1] # "none"

\* C8: when the database of a resolved configuration has a single ORM and
\* --orm was not given, orm is that ORM and no ORM prompt was shown, on the
\* interactive, the all-flags and the --yes path alike.
C8_SingleOrmAutoAssigned ==
  (Resolved /\ options.orm = NULL /\ SingleOrm(config.database))
    => /\ config.orm = DATABASE_ORM_COMPAT(config.database)[1]
       /\ ~Shown("orm")

\* next with its built-in API and sqlite, no --orm given
Scenario3 ==
  /\ Resolved
  /\ config.framework = "next"
  /\ config.backend = "nextjs-builtin"
  /\ config.database = "sqlite"
  /\ options.orm = NULL

\* C9 as stated: scenario 3 resolves orm without an ORM prompt to the single
\* ORM of sqlite, and its layout is integrated.
C9_Scenario3AutoAssignsOrm ==
  Scenario3 =>
    /\ ~Shown("orm")
    /\ SingleOrm("sqlite")
    /\ config.orm = DATABASE_ORM_COMPAT("sqlite")[1]
    /\ Layout(config.backend) = "integrated"

\* C9 amended: sqlite has two ORMs, prisma and drizzle, so scenario 3 has no
\* single ORM to assign: when runPrompts resolves it the ORM prompt is shown
\* and orm is the one of the two the user picked; on the paths that do not
\* prompt no ORM prompt is shown; the layout is integrated on every path.
C9_Scenario3PromptsForOrm ==
  Scenario3 =>
    /\ ~SingleOrm("sqlite")
    /\ Layout(config.backend) = "integrated"
    /\ IF Mode = "interactive"
         THEN /\ Shown("orm")
              /\ config.orm \in {"prisma", "drizzle"}
              /\ Includes(DATABASE_ORM_COMPAT("sqlite"), config.orm)
         ELSE ~Shown("orm")

\* C9 witness: scenario 3 resolved at the prompts with drizzle picked at
\* the ORM prompt, and generate() about to be called
C9_Scenario3Interactive ==
  /\ Scenario3
  /\ Mode = "interactive"
  /\ config.orm = "drizzle"
  /\ Shown("orm")
  /\ pc = "generate"

\* C10: in every resolved configuration of a known framework, backend is in
\* FRAMEWORK_BACKEND_COMPAT of the framework, whether it was picked at the
\* prompt or given with --backend.
C10_BackendAllowedForFramework ==
  (Resolved /\ config.framework \in Framework)
    => Includes(FRAMEWORK_BACKEND_COMPAT(config.framework), config.backend)


\* C11: in every resolved configuration of a known framework, auth is in
\* FRAMEWORK_AUTH_COMPAT of the framework, whether it was picked at the
\* prompt or given with --auth.
C11_AuthAllowedForFramework ==
  (Resolved /\ config.framework \in Framework)
    => Includes(FRAMEWORK_AUTH_COMPAT(config.framework), config.auth)

\* C12: in every resolved configuration, runtime is defined only when the
\* backend is one of RUNTIME_SELECTABLE_BACKENDS; for every other backend it
\* is undefined, also when --runtime was passed.
C12_RuntimeOnlyForSelectableBackends ==
  (Resolved /\ config.runtime # NULL)
    => Includes(RUNTIME_SELECTABLE_BACKENDS, config.backend)

\* C13: a runtime is resolved exactly when the backend is hono; when the
\* resolved runtime is bun the final packageManager is bun, whatever package
\* manager the user gave; when it is node the package manager is the one
\* the user gave with --pm or picked at the prompt.
C13_BunRuntimeForcesBun ==
  Resolved =>
    /\ config.runtime # NULL <=> config.backend = "hono"
    /\ config.runtime = "bun" => config.packageManager = "bun"
    /\ (config.runtime = "node" /\ options.pm # NULL)
         => config.packageManager = options.pm
    /\ (config.runtime = "node" /\ options.pm = NULL /\ Mode = "interactive")
         => Shown("packageManager")


\* the package.json files written so far
Manifests == { path \in DOMAIN files : path[Len(path)] = "package.json" }

dockerComposePath == projectPath(config) \o <<"docker-compose.yml">>

\* generate() was called for the current directory
InCurrentDir == finalConfig # Unassigned /\ isCurrentDir(config)

\* the project directory is the working directory and is not created
InPlace ==
  /\ projectPath(config) = <<>>
  /\ <<>> \notin dirs
  /\ ~Includes(spinner, "Creating project directory...")

Last(seq) == seq[Len(seq)]

\* the step is a cancellation by the user: a prompt of runPrompts aborted,
\* or the confirmation for a non-empty directory aborted or declined
Cancels == CancelPrompt \/ (Confirm /\ pc' = "exit")

\* the step throws something else: a failed install, an unknown framework at
\* the dispatch, a TypeError in runPrompts
Fails ==
  \/ InstallDependencies /\ pc' = "exit"
  \/ GenerateFrontend /\ pc' = "exit"
  \/ GenerateProjectFiles /\ pc' = "exit"
  \/ PromptBackend /\ pc' = "exit"
  \/ PromptDatabase /\ pc' = "exit"
  \/ PromptAuth /\ pc' = "exit"

Cancelled == pc = "exit" /\ Last(notices) = <<"warn", "Operation cancelled">>

\* C15: the run has an exit code exactly when it has ended; a step that
\* completes it ends it with exit code 0 and the success message; a step in
\* which the user cancels ends it with exit code 0 and a warning, never an
\* error; a step that fails otherwise ends it with exit code 1 and an error
\* message; and a run ends in one of these three ways only.
C15_ExitCodes ==
  [][/\ exitCode' # -1 <=> pc' \in {"done", "exit"}
     /\ pc' = "done" => exitCode' = 0 /\ Last(notices')[1] = "success"
     /\ Cancels => /\ exitCode' = 0
                   /\ Last(notices') = <<"warn", "Operation cancelled">>
                   /\ \A i \in 1..Len(notices') : notices'[i][1] # "error"
     /\ Fails => exitCode' = 1 /\ Last(notices')[1] = "error"
     /\ pc' = "exit" => Cancels \/ Fails]_vars

\* C15 witness: the user declined to continue into a non-empty directory
\* and the run ended with exit code 0 and the warning
C15_DeclinedNonEmptyDirectory ==
  /\ Cancelled
  /\ exitCode = 0
  /\ Last(prompts) = "confirm"


\* a directory has been made or a file written
Mutated == dirs # {} \/ DOMAIN files # {}

\* C16: a run that ended cancelled has made no directory, written no file
\* and spawned no command; and once a directory is made or a file written
\* the run is past every prompt, so that no later step can cancel it.
C16_CancelledBeforeAnyMutation ==
  /\ Cancelled => ~Mutated /\ spinner = <<>> /\ execa = <<>>
  /\ Mutated => /\ ~Prompting
                /\ pc \notin {"cli", "generate", "confirm"}
                /\ ~Cancelled

\* C16 witness: every prompt of runPrompts was answered and the run was
\* cancelled at the confirmation for the non-empty directory, the last
\* point before the first directory is made
C16_CancelledAtConfirmation ==
  /\ Cancelled
  /\ Shown("extras")
  /\ Last(prompts) = "confirm"
  /\ ~Mutated


\* the step is an install that failed
InstallFails == InstallDependencies /\ Last(execa').rejected

\* the install was run and failed
InstallFailed ==
  \E i \in 1..Len(execa) : execa[i].command[2] = "install" /\ execa[i].rejected

\* C17: a step in which the install fails ends the run with exit code 1 and
\* the error's message, and removes no directory and no file of those
\* generated before it; and a run whose install failed stays ended: no git
\* command is ever spawned, the failed install being the only command.
C17_InstallFailureIsFatal ==
  /\ [][InstallFails =>
          /\ pc' = "exit"
          /\ exitCode' = 1
          /\ Last(notices') = <<"error", "Command failed">>
          /\ files' = files /\ dirs' = dirs
          /\ rootPackageJsonPath \in DOMAIN files']_vars
  /\ [](InstallFailed =>
          /\ pc = "exit"
          /\ Len(execa) = 1
          /\ ~Includes(spinner, "Initializing git repository..."))

\* C17 witness: the install failed in a monorepo whose manifests had been
\* written, and the run ended with exit code 1
C17_InstallFailedInMonorepo ==
  /\ InstallFailed
  /\ pc = "exit"
  /\ exitCode = 1
  /\ {rootPackageJsonPath, frontendPath(config) \o <<"package.json">>,
      backendPath(config) \o <<"package.json">>} \subseteq DOMAIN files
  /\ {frontendPath(config), backendPath(config)} \subseteq dirs


IsGit(call) == call.command[1] = "git"

\* the git commands spawned, in order
GitCalls == SelectSeq(execa, IsGit)

\* C18: the git commands spawned are git init, git add and git commit in
\* this order, a command that failed being the last one spawned; and
\* whenever initGit has run, with or without a failure, the run has ended
\* with the success message and exit code 0, with no error reported.
C18_GitFailureIsSwallowed ==
  LET git == GitCalls IN
  /\ Len(git) <= Len(gitCommands)
  /\ \A i \in 1..Len(git) :
       /\ git[i].command = gitCommands[i]
       /\ git[i].rejected => i = Len(git)
  /\ git # <<>> =>
       /\ pc = "done"
       /\ exitCode = 0
       /\ Last(notices)[1] = "success"
       /\ \A i \in 1..Len(notices) : notices[i][1] # "error"

\* C18 witness: git add failed after git init, no commit was attempted and
\* the run ended with the success message and exit code 0
C18_GitAddFailed ==
  /\ pc = "done"
  /\ exitCode = 0
  /\ Len(GitCalls) = 2
  /\ Last(GitCalls) = Execa(<<"git", "add", "-A">>, TRUE)
  /\ Last(notices)[1] = "success"


\* generate() was called with a framework that is no Framework or a backend
\* that is no BackendFramework
UnknownEnum ==
  /\ finalConfig # Unassigned
  /\ finalConfig.framework \notin Framework \/ finalConfig.backend \notin BackendFramework

\* C19: a run with an unknown framework or an unknown backend generates no
\* project: it never gets past the dispatch of the generators to the install,
\* to git or to the success message, and unless the user cancels it first it
\* ends with an error reported and exit code 1.
C19_UnknownEnumIsFatal ==
  UnknownEnum =>
    /\ pc \notin {"install", "git", "done"}
    /\ (pc = "exit" /\ ~Cancelled) => exitCode = 1 /\ Last(notices)[1] = "error"


\* the flag when it was given, else the default
FlagOr(flag, default) == IF flag # NULL THEN flag ELSE default

\* C20: when --yes is passed, with or without a project name, no prompt of
\* the configuration is shown, and the resolved configuration has for every
\* field the flag's value or else its default: framework next, backend none,
\* database none, orm none, auth none, styling tailwind, package manager
\* pnpm, typescript and eslint on, testing, playwright and docker off.
C20_YesSkipsPromptsAndDefaults ==
  options.yes =>
    /\ prompts = <<>>
    /\ pc \notin {"projectName", "framework", "backend", "elysia", "runtime", "database",
                  "orm", "auth", "styling", "packageManager", "extras"}
    /\ Resolved =>
         /\ config.framework = FlagOr(options.framework, "next")
         /\ config.backend = FlagOr(options.backend, "none")
         /\ config.database = FlagOr(options.db, "none")
         /\ config.orm = FlagOr(options.orm, "none")
         /\ config.auth = FlagOr(options.auth, "none")
         /\ config.styling = FlagOr(options.styling, "tailwind")
         /\ config.packageManager = FlagOr(options.pm, "pnpm")
         /\ config.extras.typescript = options.typescript
         /\ config.extras.eslint = options.eslint
         /\ config.extras.testing = options.testing
         /\ config.extras.playwright = options.playwright
         /\ config.extras.docker = options.docker


\* C21: in every resolved configuration, on the interactive, the --yes and
\* the all-flags path, extras.prettier equals extras.eslint.
C21_PrettierMirrorsEslint ==
  Resolved => config.extras.prettier = config.extras.eslint

\* C21 witness: a configuration resolved with --yes and --no-eslint, in
\* which both are off
C21_YesWithoutEslint ==
  /\ Resolved
  /\ Mode = "yes"
  /\ ~options.eslint
  /\ ~config.extras.eslint
  /\ ~config.extras.prettier


\* runPrompts has forced the package manager
Forced == Resolved /\ rp.forcePackageManager # NULL

\* the notice of the override, naming the backend that forces it
ForcedNotice ==
  <<"info", "Using package manager (required by)", rp.forcePackageManager, rp.backend>>

\* the two lines logged when `bun --version` fails
BunMissingNotices ==
  << <<"warn", "Elysia requires Bun runtime">>,
     <<"info", "Run: curl -fsSL https://bun.sh/install | bash">> >>

\* the notices of the resolution other than those of the database step
\* (Convex includes its own database, the ORM picked automatically)
OverrideNotices ==
  SelectSeq(notices, LAMBDA n : n[2] \notin {"Convex includes its own database",
                                             "Using orm for database"})

\* C22 as stated: when the backend forces the package manager, the one
\* notice naming the backend is all that is logged for it, whether or not
\* bun is installed.
C22_OneNoticeWhateverBun ==
  Forced => OverrideNotices = <<ForcedNotice>>

\* C22: when runPrompts forces the package manager (elysia, or hono with
\* runtime bun), the configuration gets bun and exactly one notice names the
\* forcing backend; for elysia on a machine without bun that notice is
\* preceded by a warning and an install hint, and nothing else is logged for
\* the override.  Without prompts (--yes, all flags) nothing is logged.
C22_OneNoticePlusBunHint ==
  /\ Forced =>
       /\ rp.backend = "elysia" \/ (rp.backend = "hono" /\ rp.runtime = "bun")
       /\ config.packageManager = "bun"
       /\ rp.forcePackageManager = "bun"
       /\ \/ OverrideNotices = <<ForcedNotice>>
          \/ /\ rp.backend = "elysia"
             /\ OverrideNotices = BunMissingNotices \o <<ForcedNotice>>
  /\ (Resolved /\ Mode # "interactive") => notices = <<>>

\* C22 witness: elysia resolved on a machine without bun, three lines logged
C22_ElysiaWithoutBun ==
  /\ Forced
  /\ config.backend = "elysia"
  /\ OverrideNotices = BunMissingNotices \o <<ForcedNotice>>


\* The step of the pipeline the run is at: 0 resolving the configuration
\* (cli, runPrompts), 1 generate() classifying the layout and looking at the
\* target, 2 generating files, 3 merging the integrated backend into the
\* manifest, 4 installing, 5 initializing git, 6 over.
Stage ==
  CASE pc \in {"generate", "confirm"} -> 1
    [] pc \in {"ensureDir", "monorepo", "generateFrontend", "generateBackend",
               "docker", "single"} -> 2
    [] pc = "integrated" -> 3
    [] pc = "install" -> 4
    [] pc = "git" -> 5
    [] pc \in {"done", "exit"} -> 6
    [] OTHER -> 0

\* C23: no step of a run goes back to an earlier step of the pipeline
\* resolve, classify, generate, merge, install, git; the configuration is
\* final once generate() runs; the merge runs in the integrated layout only;
\* the install starts with the manifest written and before any command, and
\* nothing is written once it has started; git is reached only with the
\* install as the one command spawned, and it succeeded.
C23_PipelineOrder ==
  [][/\ Stage' >= Stage
     /\ Stage >= 1 => Resolved /\ config' = config
     /\ Stage >= 2 => finalConfig # Unassigned /\ finalConfig' = finalConfig
     /\ MergeIntegratedBackend => Layout(finalConfig.backend) = "integrated"
     /\ InstallDependencies =>
          /\ execa = <<>>
          /\ projectPath(config) \o <<"package.json">> \in Manifests
     /\ Stage >= 4 => files' = files /\ dirs' = dirs
     /\ pc = "git" =>
          /\ execa = <<Execa(getInstallCommand(finalConfig.packageManager), FALSE)>>
          /\ \A i \in (Len(execa) + 1)..Len(execa') : IsGit(execa'[i])
    ]_vars

\* C23 witness: a run of the integrated layout that went through every
\* step, the merge and the three git commands included
C23_EveryStepRan ==
  /\ pc = "done"
  /\ Layout(finalConfig.backend) = "integrated"
  /\ "Creating project directory..." = spinner[1]
  /\ files[projectPath(config) \o <<"package.json">>] #
       getPackageJson(getFrontendGenerator(finalConfig.framework), finalConfig)
  /\ Len(execa) = 1 + Len(gitCommands)
  /\ ~Last(execa).rejected


\* the manifest the frontend generator writes for the run
FrontendManifest(name) ==
  getPackageJson(getFrontendGenerator(finalConfig.framework),
                 [finalConfig EXCEPT !.projectName = name])

\* C24: the merge step is taken in the integrated layout only, and in that
\* layout every run that generated the project takes it; when the install
\* starts, the manifest of layout none is the frontend generator's manifest
\* and nothing else, the manifest of the integrated layout is that manifest
\* with the backend's entries merged in, and the frontend package of the
\* separate layout holds the frontend generator's manifest untouched.
C24_MergeOnlyWhenIntegrated ==
  [][/\ MergeIntegratedBackend => Layout(finalConfig.backend) = "integrated"
     /\ (GenerateProjectFiles /\ pc' # "exit") =>
          (pc' = "integrated" <=> Layout(finalConfig.backend) = "integrated")
     /\ InstallDependencies =>
          LET layout == Layout(finalConfig.backend)
              root == files[projectPath(config) \o <<"package.json">>]
              backendGenerator == getBackendGenerator(finalConfig.backend)
          IN  /\ layout = "none" => root = FrontendManifest(finalConfig.projectName)
              /\ layout = "integrated" =>
                   root = MergePackageJson(FrontendManifest(finalConfig.projectName),
                                           backendDeps(backendGenerator, finalConfig),
                                           backendDevDeps(backendGenerator, finalConfig),
                                           backendScripts(backendGenerator, finalConfig))
              /\ layout = "separate" =>
                   files[frontendPath(config) \o <<"package.json">>] =
                     FrontendManifest("frontend")
    ]_vars

\* C24 witness: a finished run of the separate layout whose backend package
\* has scripts the frontend package does not have
C24_SeparateFrontendUntouched ==
  /\ pc = "done"
  /\ Layout(finalConfig.backend) = "separate"
  /\ files[frontendPath(config) \o <<"package.json">>] = FrontendManifest("frontend")
  /\ files[backendPath(config) \o <<"package.json">>].scripts #
       files[frontendPath(config) \o <<"package.json">>].scripts


\* the prompts of runPrompts, in the order of its code
PromptOrder ==
  <<"projectName", "framework", "backend", "runtime", "database", "orm", "auth",
    "styling", "packageManager", "extras">>

Rank(name) == CHOOSE i \in DOMAIN PromptOrder : PromptOrder[i] = name

\* the field is resolved, or is the runtime of a backend that has none
Settles(field) ==
  IF field = "runtime" /\ ~Includes(RUNTIME_SELECTABLE_BACKENDS, rp.backend)
    THEN TRUE
    ELSE rp[field] # NULL

Commands(script) ==
  IF script[1] = "concurrently" THEN {script[2], script[3]} ELSE {script}

\* the command lines of the root manifest's scripts
RootCommands ==
  UNION {Commands(files[rootPackageJsonPath].scripts[key]) :
           key \in DOMAIN files[rootPackageJsonPath].scripts}

\* the package names the root scripts select with --filter
FilterNames ==
  UNION {{command[i + 1] : i \in {j \in 1..(Len(command) - 1) : command[j] = "--filter"}} :
           command \in RootCommands}
    \ {"*"}

\* the manifests of the packages under packages/
SubPackageManifests == {files[path] : path \in Manifests \ {rootPackageJsonPath}}

\* both packages of the monorepo are generated
MonorepoGenerated == RootManifestWritten /\ Stage >= 4

\* C26: once both packages of the separate layout are generated, each name
\* the root scripts pass to --filter (frontend, backend) is the name of
\* exactly one generated sub-package manifest.
C26_FiltersSelectGeneratedPackages ==
  MonorepoGenerated =>
    /\ FilterNames = {"frontend", "backend"}
    /\ \A name \in FilterNames :
         Cardinality({manifest \in SubPackageManifests : manifest.name = name}) = 1


\* C27: in the separate layout every command of the root manifest's scripts
\* invokes the package manager of the ProjectConfig, and names no other
\* package manager.
C27_RootScriptsUseResolvedPackageManager ==
  RootManifestWritten =>
    \A command \in RootCommands :
      /\ command[1] = finalConfig.packageManager
      /\ \A i \in DOMAIN command :
           command[i] \in PackageManager => command[i] = finalConfig.packageManager


\* C28: an extras flag given on the command line (--docker, --testing,
\* --playwright, --no-typescript, --no-eslint) sets the extra of the resolved
\* ProjectConfig, on the --yes, the all-flags and the interactive path.
C28_ExtrasFlagsDetermineExtras ==
  Resolved =>
    /\ options.docker => config.extras.docker
    /\ options.testing => config.extras.testing
    /\ options.playwright => config.extras.playwright
    /\ ~options.typescript => ~config.extras.typescript
    /\ ~options.eslint => ~config.extras.eslint


\* the step spawns a git command
SpawnsGit == \E i \in (Len(execa) + 1)..Len(execa') : IsGit(execa'[i])

\* C29: the step generate() takes when .git exists spawns nothing and starts
\* no spinner; a step that spawns a git command is the step taken when .git
\* does not exist, starts with git init, is the first to spawn one, comes
\* after the manifest is written and the install, the only command before
\* it, has succeeded, and ends the run.
C29_GitInitializedAtMostOnce ==
  [][/\ InitializeGitWhen(TRUE) => execa' = execa /\ spinner' = spinner
     /\ SpawnsGit =>
          /\ InitializeGitWhen(FALSE)
          /\ GitCalls = <<>>
          /\ projectPath(config) \o <<"package.json">> \in Manifests
          /\ execa = <<Execa(getInstallCommand(finalConfig.packageManager), FALSE)>>
          /\ execa'[Len(execa) + 1].command = <<"git", "init">>
          /\ pc' = "done"
    ]_vars

\* C29 witness: a run that ended in a directory that is a git repository
\* already, the install being the only command it spawned
C29_AlreadyAGitRepository ==
  /\ pc = "done"
  /\ execa = <<Execa(getInstallCommand(finalConfig.packageManager), FALSE)>>
  /\ ~Includes(spinner, "Initializing git repository...")


\* the step of runPrompts that checks for bun, for a backend that needs it
ChecksBun(bunInstalled) ==
  HandleElysiaWhen(bunInstalled) /\ Includes(BUN_ONLY_BACKENDS, rp.backend)

\* C30: the step that checks for bun leaves the answers, the prompts shown,
\* the configuration and the position of the resolution the same whether
\* bun is installed or not: with either outcome the package manager is
\* forced to bun and the resolution goes on to the runtime; the outcomes
\* differ in the warning and the install hint alone.  The configuration an
\* interactive resolution returns is the one built from the answers and the
\* extras picked, with bun as package manager for a backend that needs it.
C30_BunCheckChangesNoticesOnly ==
  [][/\ \A bunInstalled \in BOOLEAN :
          ChecksBun(bunInstalled) =>
            /\ rp' = [rp EXCEPT !.forcePackageManager = "bun"]
            /\ prompts' = prompts
            /\ config' = config
            /\ pc' = "runtime"
            /\ exitCode' = exitCode
            /\ notices' = IF bunInstalled THEN notices ELSE notices \o BunMissingNotices
     /\ (Resolved' /\ ~Resolved /\ Mode = "interactive") =>
          /\ config' = PromptedConfig(rp, {extra \in extrasOptions : config'.extras[extra]})
          /\ Includes(BUN_ONLY_BACKENDS, rp.backend) => config'.packageManager = "bun"
    ]_vars

\* C30 witness: a configuration resolved for elysia after the warning that
\* bun is missing, with bun as its package manager all the same
C30_ResolvedWithoutBun ==
  /\ Resolved
  /\ Includes(notices, <<"warn", "Elysia requires Bun runtime">>)
  /\ config.packageManager = "bun"
  /\ Last(prompts) = "extras"

====
